---- MODULE Spec2Model ----
(***************************************************************************)
(* db-wrap: compile-time SQL synthesis from a reflected record type, the   *)
(* row mappers, and the CRUD facade that runs one statement per            *)
(* transaction on a pqxx connection.                                       *)
(*                                                                         *)
(* Text is a sequence of one-character strings, so that lengths, buffer    *)
(* capacities and the NUL terminator are real.  A value on the wire (a     *)
(* bound parameter, a table cell) is a string, SQL NULL is the value Null. *)
(***************************************************************************)
EXTENDS Integers, Sequences, FiniteSets, TLC

VARIABLES
    Scheme,     \* the record type: [kName |-> text, names |-> field names in declaration order]
    table,      \* the rows of table Scheme.kName held by the database, in storage order
    op,         \* the operation that ran last
    Fields,     \* its Fields... template pack (update queries)
    record,     \* its record / id argument
    build,      \* "ok", or "static_assert" when the instantiation does not compile
    query,      \* the static_string it synthesized
    params,     \* the parameters it bound, in binding order
    drv,        \* the calls it made on the driver, in order
    result      \* what it returned

vars == <<Scheme, table, op, Fields, record, build, query, params, drv, result>>

----------------------------------------------------------------------------
(* Bounds *)

MaxFields == 3      \* most fields of a record type
MaxReq == 2         \* most names in an enumerated Fields... pack
MaxCols == 3        \* most columns of a result row handed to a row mapper
MaxCap == 6         \* largest capacity N of a static_string<N> built by operator+
MaxAppends == 4     \* most operator+= calls on one static_string

----------------------------------------------------------------------------
(* Text *)

NUL == "NUL"        \* the zero byte

Digits == <<"0", "1", "2", "3", "4", "5", "6", "7", "8", "9">>

\* the pieces one after the other
RECURSIVE Flatten(_)
Flatten(pieces) ==
    IF pieces = <<>> THEN <<>>
    ELSE IF Len(pieces) = 1 THEN pieces[1]
    ELSE LET h == Len(pieces) \div 2
         IN  Flatten(SubSeq(pieces, 1, h)) \o Flatten(SubSeq(pieces, h + 1, Len(pieces)))

RECURSIVE Reverse(_)
Reverse(s) ==
    IF s = <<>> THEN <<>> ELSE Append(Reverse(Tail(s)), Head(s))

Indices(s) == [k \in 1..Len(s) |-> k]

\* the characters of the NUL-terminated string starting at buf[1]; a buffer
\* without a zero byte is read to its end
CStr(buf) ==
    LET nuls == SelectSeq(Indices(buf), LAMBDA k : buf[k] = NUL)
    IN  IF nuls = <<>> THEN buf ELSE SubSeq(buf, 1, nuls[1] - 1)

Zeros(n) == SubSeq(<<NUL, NUL, NUL, NUL, NUL, NUL, NUL, NUL, NUL, NUL>>, 1, n)

----------------------------------------------------------------------------
(* details/string_utils.hpp *)

ItoaBufSize == 10

\* the digits of num, least significant first, as the for loop writes them
RECURSIVE itoa_digits(_)
itoa_digits(num) ==
    IF num = 0 THEN <<>>
    ELSE LET rem == num % 10
         IN  <<IF rem > 9 THEN "a" ELSE Digits[rem + 1]>> \o itoa_digits(num \div 10)

\* itoa_d without the final std::reverse
itoa_d_unreversed(in_num) ==
    IF in_num <= 0
    THEN <<"0", NUL>> \o Zeros(ItoaBufSize - 2)
    ELSE LET ds == itoa_digits(in_num)
         IN  ds \o <<NUL>> \o Zeros(ItoaBufSize - Len(ds) - 1)

\* the ItoaBufSize-byte, zero-initialised buffer after itoa_d(in_num, buf)
itoa_d(in_num) ==
    IF in_num <= 0
    THEN <<"0", NUL>> \o Zeros(ItoaBufSize - 2)
    ELSE LET ds == itoa_digits(in_num)
             i  == Len(ds)
         IN  Reverse(ds) \o <<NUL>> \o Zeros(ItoaBufSize - i - 1)

----------------------------------------------------------------------------
(* details/static_string.hpp *)

\* static_string<N>{}: len, value[N], and ovf recording a copy past value[N-1]
static_string(N) == [N |-> N, len |-> 0, value |-> [k \in 1..N |-> NUL] \o <<>>, ovf |-> FALSE]

\* a literal constructor that leaves no room for the terminator
static_string_lit_bare(str) ==
    [N |-> Len(str), len |-> Len(str), value |-> str, ovf |-> FALSE]

\* static_string(const char (&str)[N]): the literal and its terminator
static_string_lit(str) ==
    [N |-> Len(str) + 1, len |-> Len(str), value |-> str \o <<NUL>>, ovf |-> FALSE]

\* operator std::string_view
sview(s) == SubSeq(s.value, 1, s.len)

\* operator==(const static_string&, std::string_view)
ss_eq(lhs, rhs) == sview(lhs) = rhs

\* operator+= that copies to value + 0 instead of value + len
ss_append_at_start(s, str) ==
    LET end == s.len + Len(str)
    IN  [N     |-> s.N,
         len   |-> end,
         value |-> IF Len(str) <= s.N
                   THEN str \o SubSeq(s.value, Len(str) + 1, s.N)
                   ELSE SubSeq(str, 1, s.N),
         ovf   |-> s.ovf \/ end > s.N]

\* operator+=(std::string_view): copy_n(str, size, value + len); len += size.
\* Bytes that would land past value[N-1] are dropped and recorded in ovf.
ss_append(s, str) ==
    LET end == s.len + Len(str)
    IN  [N     |-> s.N,
         len   |-> end,
         value |-> IF end <= s.N
                   THEN SubSeq(s.value, 1, s.len) \o str \o SubSeq(s.value, end + 1, s.N)
                   ELSE SubSeq(s.value, 1, s.len) \o SubSeq(str, 1, s.N - s.len),
         ovf   |-> s.ovf \/ end > s.N]

\* operator+ (static_string<NF>, static_string<NS>)
ss_concat(first, second) ==
    ss_append(ss_append(static_string(first.N + second.N), sview(first)), sview(second))

\* data(): what a reader of the NUL-terminated pointer sees
ss_data(s) == CStr(s.value)

\* dest += piece for every piece in turn, dest a static_string; dest is
\* complete (its len is read) before the next piece is appended
RECURSIVE ss_append_all(_, _)
ss_append_all(s, pieces) ==
    IF s.len >= 0 /\ pieces = <<>> THEN s
    ELSE IF Len(pieces) = 1 THEN ss_append(s, pieces[1])
    ELSE LET h == Len(pieces) \div 2
         IN  ss_append_all(ss_append_all(s, SubSeq(pieces, 1, h)),
                           SubSeq(pieces, h + 1, Len(pieces)))

----------------------------------------------------------------------------
(* details/pfr_utils.hpp *)

kId == <<"i", "d">>

get_struct_names(S) == S.names

get_fields_count(S) == Len(S.names)

\* a lookup that answers the last ordinal when no field has the name
find_idx_clamped(names, field_name) ==
    IF \E k \in 1..Len(names) : names[k] = field_name
    THEN (CHOOSE k \in 1..Len(names) : names[k] = field_name) - 1
    ELSE IF names = <<>> THEN 0 ELSE Len(names) - 1

\* std::distance(begin, std::find(begin, end, field_name)), 0-based
RECURSIVE find_idx(_, _)
find_idx(names, field_name) ==
    IF names = <<>> \/ Head(names) = field_name THEN 0
    ELSE 1 + find_idx(Tail(names), field_name)

get_field_idx_by_name(field_name, S) == find_idx(get_struct_names(S), field_name)

\* boost::pfr::get<idx>(val), idx 0-based; val maps ordinal 1..n to the value
get_field_by_idx(idx, val) == val[idx + 1]

\* get_field_by_name that resolves "a" to the field "id"
get_field_by_name_aliased(field_name, S, val) ==
    get_field_by_idx(find_idx(S.names, IF field_name = <<"a">> THEN kId ELSE field_name), val)

get_field_by_name(field_name, S, val) ==
    get_field_by_idx(get_field_idx_by_name(field_name, S), val)

----------------------------------------------------------------------------
(* details/sql_impl.hpp *)

\* concept HasName: T::kName converts to std::string_view, and the expression
\* !std::string_view{T::kName}.empty() is well-formed; a simple requirement
\* is not evaluated, so an empty kName satisfies the concept
HasName(S) == "kName" \in DOMAIN S

HasIdField(S) == \E k \in 1..Len(S.names) : S.names[k] = kId

kAssign == <<" ", "=", " ", "$">>
kSep == <<",", " ">>
kUpdateBegin == <<"U", "P", "D", "A", "T", "E", " ">>
kSet == <<" ", "S", "E", "T", " ">>
kUpdateEnd == <<" ", "W", "H", "E", "R", "E", " ", "i", "d", " ", "=", " ", "$", "1", ";">>
kInsertBegin == <<"I", "N", "S", "E", "R", "T", " ", "I", "N", "T", "O", " ">>
kOpenParen == <<" ", "(">>
kValues == <<")", " ", "V", "A", "L", "U", "E", "S">>
kInsertEnd == <<")", ";">>

\* interpret_name numbering the placeholders from $1, colliding with "id = $1"
interpret_name_from1(name, i, max_size) ==
    <<name, kAssign, CStr(itoa_d(i + 1))>>
        \o (IF i + 1 < max_size THEN <<kSep>> ELSE <<>>)

\* the pieces interpret_name appends to dest for the i-th name (i 0-based)
interpret_name(name, i, max_size) ==
    <<name, kAssign, CStr(itoa_d(i + 2))>>
        \o (IF i + 1 < max_size THEN <<kSep>> ELSE <<>>)

\* the fold over the pack taken from its last name to its first
RECURSIVE interpret_pack_reversed(_, _, _)
interpret_pack_reversed(fs, i, size) ==
    IF fs = <<>> THEN <<>>
    ELSE interpret_name(fs[Len(fs)], i, size)
             \o interpret_pack_reversed(SubSeq(fs, 1, Len(fs) - 1), i + 1, size)

\* (interpret_name(Fields, i, size, dest), ...): the fold over the pack
RECURSIVE interpret_pack(_, _, _)
interpret_pack(fs, i, size) ==
    IF fs = <<>> THEN <<>>
    ELSE interpret_name(Head(fs), i, size) \o interpret_pack(Tail(fs), i + 1, size)

\* update_query_str that appends nothing for an empty pack
update_query_str_guarded(S, fs) ==
    IF fs = <<>> THEN <<>>
    ELSE <<kUpdateBegin, S.kName, kSet>> \o interpret_pack(fs, 0, Len(fs)) \o <<kUpdateEnd>>

\* the pieces update_query_str<Scheme, Fields...> appends to dest
update_query_str(S, fs) ==
    <<kUpdateBegin, S.kName, kSet>> \o interpret_pack(fs, 0, Len(fs)) \o <<kUpdateEnd>>

\* validate_fields with any_of in place of all_of
validate_fields_any_of(fs, S) ==
    \E k \in 1..Len(fs) :
        \E j \in 1..Len(S.names) : S.names[j] = fs[k]

\* validate_fields that accepts every pack
validate_fields_always(fs, S) == TRUE

\* std::ranges::all_of(fields_str, name found in valid_fields)
validate_fields(fs, S) ==
    LET valid_fields == get_struct_names(S)
    IN  \A k \in 1..Len(fs) :
            \E j \in 1..Len(valid_fields) : valid_fields[j] = fs[k]

\* the loop of update_query_all_str over valid_fields, skipping "id"
RECURSIVE interpret_all(_, _, _)
interpret_all(valid_fields, i, names_size) ==
    IF valid_fields = <<>> THEN <<>>
    ELSE IF Head(valid_fields) = kId
         THEN interpret_all(Tail(valid_fields), i, names_size)
         ELSE interpret_name(Head(valid_fields), i, names_size)
                  \o interpret_all(Tail(valid_fields), i + 1, names_size)

\* update_query_all_str that counts "id" among the names to separate
update_query_all_str_counting_id(S) ==
    LET valid_fields == S.names
        names_size   == Len(valid_fields)
    IN  <<kUpdateBegin, S.kName, kSet>>
            \o interpret_all(valid_fields, 0, names_size) \o <<kUpdateEnd>>

\* the pieces update_query_all_str<Scheme> appends to dest
update_query_all_str(S) ==
    LET valid_fields == get_struct_names(S)
        names_size   == IF HasIdField(S) THEN Len(valid_fields) - 1
                        ELSE Len(valid_fields)
    IN  <<kUpdateBegin, S.kName, kSet>>
            \o interpret_all(valid_fields, 0, names_size) \o <<kUpdateEnd>>

\* first loop of insert_query_all_str: the column list
RECURSIVE insert_columns(_, _, _)
insert_columns(valid_fields, i, names_size) ==
    IF valid_fields = <<>> THEN <<>>
    ELSE <<Head(valid_fields)>>
             \o (IF i + 1 < names_size THEN <<kSep>> ELSE <<>>)
             \o insert_columns(Tail(valid_fields), i + 1, names_size)

\* a placeholder loop that writes $1 for every field
insert_params_all_first(field_idx, names_size) ==
    [j \in 1..(3 * (names_size - field_idx) - 1) |->
        IF j % 3 = 1 THEN <<"$">> ELSE IF j % 3 = 2 THEN <<"1">> ELSE kSep] \o <<>>

\* second loop of insert_query_all_str: views::iota(field_idx, names_size)
RECURSIVE insert_params(_, _)
insert_params(field_idx, names_size) ==
    IF field_idx >= names_size THEN <<>>
    ELSE <<<<"$">>, CStr(itoa_d(field_idx + 1))>>
             \o (IF field_idx + 1 < names_size THEN <<kSep>> ELSE <<>>)
             \o insert_params(field_idx + 1, names_size)

\* insert_query_all_str whose placeholder loop starts at field_idx = 1
insert_query_all_str_from1(S) ==
    LET valid_fields == S.names
        names_size   == Len(valid_fields)
    IN  <<kInsertBegin, S.kName, kOpenParen>>
            \o insert_columns(valid_fields, 0, names_size)
            \o <<kValues, kOpenParen>>
            \o insert_params(1, names_size)
            \o <<kInsertEnd>>

\* the pieces insert_query_all_str<Scheme> appends to dest
insert_query_all_str(S) ==
    LET valid_fields == get_struct_names(S)
        names_size   == Len(valid_fields)
    IN  <<kInsertBegin, S.kName, kOpenParen>>
            \o insert_columns(valid_fields, 0, names_size)
            \o <<kValues, kOpenParen>>
            \o insert_params(0, names_size)
            \o <<kInsertEnd>>

----------------------------------------------------------------------------
(* sql_utils.hpp *)

\* one pass into a buffer of a fixed size, nothing measured
two_pass_unmeasured(pieces) ==
    ss_append_all(static_string(Len(kUpdateBegin) + Len(kSet) + Len(kUpdateEnd)), pieces)

\* the two passes: measure in a std::string, then fill static_string<size + 1>
two_pass(pieces) ==
    LET static_size == Len(Flatten(pieces)) + 1
    IN  ss_append_all(static_string(static_size), pieces)

create_update_query(S, fs) == two_pass(update_query_str(S, fs))

create_update_all_query(S) == two_pass(update_query_all_str(S))

create_insert_all_query(S) == two_pass(insert_query_all_str(S))

\* the kDbName lambda: static_string<size>, no room for a terminator
kDbName(S) == ss_append(static_string(Len(S.kName)), S.kName)

kSelectBegin == <<"S", "E", "L", "E", "C", "T", " ", "*", " ", "F", "R", "O", "M", " ">>
kDeleteBegin == <<"D", "E", "L", "E", "T", "E", " ", "F", "R", "O", "M", " ">>
kWhere == <<" ", "W", "H", "E", "R", "E", " ">>
kSemi == <<";">>
kIdCond == <<"i", "d", " ", "=", " ", "$", "1">>

construct_query_from_condition(S, cond) ==
    LET kSelectWhere == ss_concat(ss_concat(static_string_lit(kSelectBegin), kDbName(S)),
                                  static_string_lit(kWhere))
    IN  ss_concat(ss_concat(kSelectWhere, static_string_lit(cond)), static_string_lit(kSemi))

\* construct_select_all_query that leaves the statement unterminated
construct_select_all_query_open(S) ==
    ss_concat(static_string_lit(kSelectBegin), kDbName(S))

construct_select_all_query(S) ==
    ss_concat(ss_concat(static_string_lit(kSelectBegin), kDbName(S)), static_string_lit(kSemi))

\* construct_delete_query_from_condition that begins with "SELECT * FROM "
construct_delete_query_selecting(S, cond) ==
    LET kSelectWhere == ss_concat(ss_concat(static_string_lit(kSelectBegin), kDbName(S)),
                                  static_string_lit(kWhere))
    IN  ss_concat(ss_concat(kSelectWhere, static_string_lit(cond)), static_string_lit(kSemi))

construct_delete_query_from_condition(S, cond) ==
    LET kSelectWhere == ss_concat(ss_concat(static_string_lit(kDeleteBegin), kDbName(S)),
                                  static_string_lit(kWhere))
    IN  ss_concat(ss_concat(kSelectWhere, static_string_lit(cond)), static_string_lit(kSemi))

----------------------------------------------------------------------------
(* The record types and their values *)

kA == <<"a">>
kEm == <<"e", "m">>
kNm == <<"n", "m">>
kZ == <<"z">>
kI == <<"i">>

\* declared type of a field, fixed by its name: std::int64_t, std::string,
\* std::optional<std::string>
TypeOf(name) ==
    IF name = kId \/ name = kA THEN "int"
    ELSE IF name = kEm THEN "opt" ELSE "text"

Null == "NULL"                  \* SQL NULL on the wire, std::nullopt in a record
Ints == {1, 2}                  \* values of integer fields and ids
Texts == {"w"}                  \* values of text fields

FieldValues(name) ==
    IF TypeOf(name) = "int" THEN Ints
    ELSE IF TypeOf(name) = "opt" THEN Texts \cup {Null} ELSE Texts

\* every sequence of at most n names of the given set
RECURSIVE Packs(_, _)
Packs(names, n) ==
    IF n = 0 THEN {<<>>}
    ELSE LET shorter == Packs(names, n - 1)
         IN  shorter \cup {Append(s, x) : s \in shorter, x \in names}

\* those without a repeated name: the field lists of a struct
DistinctSeqs(names, n) ==
    {s \in Packs(names, n) : \A j, k \in 1..Len(s) : s[j] = s[k] => j = k}

TableNames == {<<"t">>, <<"s", ".", "u">>}

\* record types whose kName may be the empty string
NameSchemes ==
    {[kName |-> t, names |-> ns] :
        t \in {<<>>, <<"t">>}, ns \in {<<kId>>, <<kId, kA>>, <<kEm, kId>>}}

\* record types the synthesizers are instantiated with (HasName)
SynthSchemes ==
    {[kName |-> t, names |-> ns] :
        t \in TableNames,
        ns \in DistinctSeqs({kId, kA, kEm, kNm}, MaxFields) \ {<<>>}}

\* record types the facade is instantiated with (HasSchemeAndId): "id"
\* declared first, in the middle and last
FacadeSchemes ==
    {[kName |-> <<"t">>, names |-> ns] :
        ns \in {<<kId>>, <<kId, kA>>, <<kA, kId>>, <<kEm, kId>>,
                <<kId, kA, kEm>>, <<kA, kId, kEm>>}}

\* the values of a record with the given fields: ordinal |-> value of the
\* declared type
RECURSIVE RecordsOf(_)
RecordsOf(names) ==
    IF names = <<>> THEN {<<>>}
    ELSE {<<v>> \o r : v \in FieldValues(Head(names)), r \in RecordsOf(Tail(names))}

Records(S) == RecordsOf(S.names)

\* Fields... packs: every pack of at most MaxReq names, known or not, and
\* one pack long enough for two-digit placeholders
LongPack == <<kA, kEm, kNm, kA, kEm, kNm, kA, kEm, kNm>>

SynthPacks == Packs({kId, kA, kEm, kZ}, MaxReq) \cup {<<kI>>, LongPack}

\* packs the facade's update_fields is instantiated with
FacadePacks == DistinctSeqs({kId, kA, kEm}, MaxReq) \cup {<<kZ>>, <<kA, kA>>, <<kA, kZ>>}

\* record types the row mappers are instantiated with: an integer, an
\* optional and a text field in every order
MapperSchemes ==
    {[kName |-> <<"t">>, names |-> ns] :
        ns \in DistinctSeqs({kId, kEm, kNm}, MaxFields) \ {<<>>}}

\* a pqxx::row: column names and the text (or NULL) of every field, with
\* columns no field names and a column that differs from "id" in case only
kIdUpper == <<"I", "D">>
ColNames == {kId, kEm, kNm, kIdUpper}
Cells == {"1", "w", Null}
Rows ==
    UNION {{[cols |-> c, vals |-> v] : v \in {x \in Packs(Cells, MaxCols) : Len(x) = Len(c)}} :
              c \in DistinctSeqs(ColNames, MaxCols)}


----------------------------------------------------------------------------
(* The database behind pqxx::connection: one table named Scheme.kName whose  *)
(* columns are the record type's fields (id INTEGER PRIMARY KEY, integer and *)
(* text columns NOT NULL, the column of an optional field nullable).  It     *)
(* reads a statement the way a SQL server does: from its text.               *)

IsPunct(c) == c \in {"(", ")", ",", ";", "=", "*"}
IsSep(c) == c = " " \/ IsPunct(c)

\* the words and punctuation marks of a statement, in order
Lex(text) ==
    LET n == Len(text)
        starts == SelectSeq(Indices(text),
                      LAMBDA i : \/ IsPunct(text[i])
                                 \/ ~IsSep(text[i]) /\ (i = 1 \/ IsSep(text[i - 1])))
        ends   == SelectSeq(Indices(text),
                      LAMBDA i : \/ IsPunct(text[i])
                                 \/ ~IsSep(text[i]) /\ (i = n \/ IsSep(text[i + 1])))
    IN  [k \in 1..Len(starts) |-> SubSeq(text, starts[k], ends[k])] \o <<>>

IsDigit(c) == \E d \in 1..10 : Digits[d] = c
DigitVal(c) == (CHOOSE d \in 1..10 : Digits[d] = c) - 1

\* $N, N of one or two digits
IsPlaceholder(tok) ==
    /\ Len(tok) \in 2..3
    /\ tok[1] = "$"
    /\ \A k \in 2..Len(tok) : IsDigit(tok[k])

PlaceholderIdx(tok) ==
    IF Len(tok) = 2 THEN DigitVal(tok[2]) ELSE 10 * DigitVal(tok[2]) + DigitVal(tok[3])

IsIdent(tok) == tok # <<>> /\ ~IsPunct(tok[1]) /\ tok[1] # "$"

SyntaxError == [kind |-> "error"]

\* the statement a token list spells: one of the forms the library
\* generates; anything else is a syntax error
ParseTokens(t) ==
    LET n == Len(t)
        w(k, word) == k <= n /\ t[k] = word
        cond(k) == /\ IsIdent(t[k]) /\ t[k + 1] = <<"=">> /\ IsPlaceholder(t[k + 2])
    IN  IF n = 5 /\ w(1, <<"S", "E", "L", "E", "C", "T">>) /\ w(2, <<"*">>)
             /\ w(3, <<"F", "R", "O", "M">>) /\ IsIdent(t[4]) /\ w(5, <<";">>)
        THEN [kind |-> "select", table |-> t[4], all |-> TRUE]
        ELSE IF n = 9 /\ w(1, <<"S", "E", "L", "E", "C", "T">>) /\ w(2, <<"*">>)
             /\ w(3, <<"F", "R", "O", "M">>) /\ IsIdent(t[4])
             /\ w(5, <<"W", "H", "E", "R", "E">>) /\ cond(6) /\ w(9, <<";">>)
        THEN [kind |-> "select", table |-> t[4], all |-> FALSE,
              wcol |-> t[6], widx |-> PlaceholderIdx(t[8])]
        ELSE IF n = 8 /\ w(1, <<"D", "E", "L", "E", "T", "E">>)
             /\ w(2, <<"F", "R", "O", "M">>) /\ IsIdent(t[3])
             /\ w(4, <<"W", "H", "E", "R", "E">>) /\ cond(5) /\ w(8, <<";">>)
        THEN [kind |-> "delete", table |-> t[3],
              wcol |-> t[5], widx |-> PlaceholderIdx(t[7])]
        ELSE IF n >= 11 /\ (n - 7) % 4 = 0 /\ w(1, <<"I", "N", "S", "E", "R", "T">>)
             /\ w(2, <<"I", "N", "T", "O">>) /\ IsIdent(t[3])
             /\ LET m == (n - 7) \div 4
                IN  /\ w(4, <<"(">>) /\ w(4 + 2 * m, <<")">>)
                    /\ w(5 + 2 * m, <<"V", "A", "L", "U", "E", "S">>)
                    /\ w(6 + 2 * m, <<"(">>) /\ w(n - 1, <<")">>) /\ w(n, <<";">>)
                    /\ \A k \in 1..m : /\ IsIdent(t[3 + 2 * k])
                                       /\ IsPlaceholder(t[5 + 2 * m + 2 * k])
                    /\ \A k \in 1..(m - 1) : /\ w(4 + 2 * k, <<",">>)
                                             /\ w(6 + 2 * m + 2 * k, <<",">>)
        THEN LET m == (n - 7) \div 4
             IN  [kind |-> "insert", table |-> t[3],
                  cols |-> [k \in 1..m |-> t[3 + 2 * k]],
                  idxs |-> [k \in 1..m |-> PlaceholderIdx(t[5 + 2 * m + 2 * k])]]
        ELSE IF n >= 11 /\ (n - 7) % 4 = 0 /\ w(1, <<"U", "P", "D", "A", "T", "E">>)
             /\ IsIdent(t[2]) /\ w(3, <<"S", "E", "T">>)
             /\ LET m == (n - 7) \div 4
                IN  /\ \A k \in 1..m : cond(4 * k)
                    /\ \A k \in 1..(m - 1) : w(4 * k + 3, <<",">>)
                    /\ w(4 * m + 3, <<"W", "H", "E", "R", "E">>)
                    /\ cond(4 * m + 4) /\ w(n, <<";">>)
        THEN LET m == (n - 7) \div 4
             IN  [kind |-> "update", table |-> t[2],
                  cols |-> [k \in 1..m |-> t[4 * k]],
                  idxs |-> [k \in 1..m |-> PlaceholderIdx(t[4 * k + 2])],
                  wcol |-> t[4 * m + 4], widx |-> PlaceholderIdx(t[4 * m + 6])]
        ELSE SyntaxError

Parse(text) == ParseTokens(Lex(text))

\* the table's columns, in the order of its CREATE TABLE
TableCols(S) ==
    SelectSeq(<<kId, kA, kEm, kNm>>, LAMBDA c : \E k \in 1..Len(S.names) : S.names[k] = c)

ColIdx(cols, c) == CHOOSE k \in 1..Len(cols) : cols[k] = c

\* what the server accepts as a value of column c
Typed(c, v) == TypeOf(c) = "int" => (v = Null \/ IsDigit(v))

Failed(tbl) == [ok |-> FALSE, rows |-> <<>>, affected |-> 0, table |-> tbl]

\* the parsed statement st run with parameters ps on table tbl of columns
\* cols: [ok, rows, affected, table].  A row of the result carries the
\* column names: [cols, vals].
ExecuteStatement(st, ps, tbl, cols, S) ==
    LET
        has(c) == \E k \in 1..Len(cols) : cols[k] = c
        ci(c)  == ColIdx(cols, c)
        idxs   == (IF st.kind \in {"insert", "update"}
                   THEN {st.idxs[k] : k \in 1..Len(st.idxs)} ELSE {})
                  \cup (IF st.kind = "update" \/ (st.kind = "delete")
                           \/ (st.kind = "select" /\ ~st.all)
                        THEN {st.widx} ELSE {})
        need   == IF idxs = {} THEN 0 ELSE CHOOSE m \in idxs : \A j \in idxs : j <= m
        bound  == Len(ps) = need /\ \A j \in idxs : j >= 1
        where(r) == ps[st.widx] # Null /\ r[ci(st.wcol)] = ps[st.widx]
        whereOk  == has(st.wcol) /\ bound /\ Typed(st.wcol, ps[st.widx])
        hits   == {k \in 1..Len(tbl) : where(tbl[k])}
        setOk  == /\ \A k \in 1..Len(st.cols) : has(st.cols[k])
                  /\ \A j, k \in 1..Len(st.cols) : st.cols[j] = st.cols[k] => j = k
                  /\ bound
                  /\ \A k \in 1..Len(st.cols) : Typed(st.cols[k], ps[st.idxs[k]])
        assigned(c) == \E k \in 1..Len(st.cols) : st.cols[k] = c
        valueOf(c)  == ps[st.idxs[CHOOSE k \in 1..Len(st.cols) : st.cols[k] = c]]
        newRow      == [k \in 1..Len(cols) |->
                          IF assigned(cols[k]) THEN valueOf(cols[k]) ELSE Null]
        updRow(r)   == [k \in 1..Len(cols) |->
                          IF assigned(cols[k]) THEN valueOf(cols[k]) ELSE r[k]]
        updated     == [k \in 1..Len(tbl) |->
                          IF k \in hits THEN updRow(tbl[k]) ELSE tbl[k]]
        \* NOT NULL columns and the primary key
        rowOk(r)    == \A k \in 1..Len(cols) : TypeOf(cols[k]) # "opt" => r[k] # Null
        keyOk(t)    == ~has(kId) \/
                       \A j, k \in 1..Len(t) : t[j][ci(kId)] = t[k][ci(kId)] => j = k
    IN  IF st.kind = "error" \/ st.table # S.kName THEN Failed(tbl)
        ELSE IF st.kind = "select"
        THEN IF st.all
             THEN [ok |-> TRUE, affected |-> 0, table |-> tbl,
                   rows |-> [k \in 1..Len(tbl) |-> [cols |-> cols, vals |-> tbl[k]]]]
             ELSE IF ~whereOk THEN Failed(tbl)
             ELSE [ok |-> TRUE, affected |-> 0, table |-> tbl,
                   rows |-> LET sel == SelectSeq(tbl, where)
                            IN  [k \in 1..Len(sel) |-> [cols |-> cols, vals |-> sel[k]]]]
        ELSE IF st.kind = "delete"
        THEN IF ~whereOk THEN Failed(tbl)
             ELSE [ok |-> TRUE, rows |-> <<>>, affected |-> Cardinality(hits),
                   table |-> SelectSeq(tbl, LAMBDA r : ~where(r))]
        ELSE IF st.kind = "insert"
        THEN IF ~setOk THEN Failed(tbl)
             ELSE IF ~rowOk(newRow) \/ ~keyOk(Append(tbl, newRow)) THEN Failed(tbl)
             ELSE [ok |-> TRUE, rows |-> <<>>, affected |-> 1,
                   table |-> Append(tbl, newRow \o <<>>)]
        ELSE IF ~setOk \/ ~whereOk THEN Failed(tbl)
             ELSE IF \E k \in hits : ~rowOk(updated[k]) THEN Failed(tbl)
             ELSE IF ~keyOk(updated) THEN Failed(tbl)
             ELSE [ok |-> TRUE, rows |-> <<>>, affected |-> Cardinality(hits),
                   table |-> [k \in 1..Len(tbl) |-> updated[k] \o <<>>] \o <<>>]

\* pqxx::work::exec(text, params) on table tbl
Execute(text, ps, tbl, S) == ExecuteStatement(Parse(text), ps, tbl, TableCols(S), S)

\* how the connection may fail a call, whatever the statement
Fails == {"none", "exec", "commit"}

----------------------------------------------------------------------------
(* db_utils.hpp *)

\* pqxx::params that sends std::nullopt as the empty text
to_wire_empty_for_null(v, type) ==
    IF type = "int" THEN Digits[v + 1] ELSE IF v = Null THEN "" ELSE v

\* pqxx::params: every argument is sent as text, std::nullopt as NULL
to_wire(v, type) == IF type = "int" THEN Digits[v + 1] ELSE v

\* as<T>() that refuses NULL for every T, std::optional included
as_type_null_refused(v, type) ==
    IF v = Null THEN [ok |-> FALSE]
    ELSE IF type = "int"
    THEN IF v \in {"0", "1", "2", "3", "4", "5", "6", "7", "8", "9"}
         THEN [ok |-> TRUE, value |-> DigitVal(v)]
         ELSE [ok |-> FALSE]
    ELSE [ok |-> TRUE, value |-> v]

\* field.as<T>() of one column value: [ok, value]
as_type(v, type) ==
    IF type = "int"
    THEN IF v # Null /\ IsDigit(v) THEN [ok |-> TRUE, value |-> DigitVal(v)]
         ELSE [ok |-> FALSE]
    ELSE IF type = "text"
    THEN IF v # Null THEN [ok |-> TRUE, value |-> v] ELSE [ok |-> FALSE]
    ELSE [ok |-> TRUE, value |-> v]

\* from_row that takes field i from column i
from_row_by_position(row, S) ==
    LET n       == Len(S.names)
        conv(k) == as_type(row.vals[k], TypeOf(S.names[k]))
    IN  IF Len(row.vals) >= n /\ \A k \in 1..n : conv(k).ok
        THEN [ok |-> TRUE, value |-> [k \in 1..n |-> conv(k).value] \o <<>>]
        ELSE [ok |-> FALSE]

\* from_row<T>(row): every field from the column of its name; [ok, value],
\* ok = FALSE when row[name] or as<>() throws
from_row(row, S) ==
    LET n       == Len(S.names)
        has(c)  == \E k \in 1..Len(row.cols) : row.cols[k] = c
        cell(c) == row.vals[ColIdx(row.cols, c)]
        conv(k) == as_type(cell(S.names[k]), TypeOf(S.names[k]))
    IN  IF \A k \in 1..n : has(S.names[k]) /\ conv(k).ok
        THEN [ok |-> TRUE, value |-> [k \in 1..n |-> conv(k).value] \o <<>>]
        ELSE [ok |-> FALSE]

\* pqxx::row::operator[](index) checks no bound: what a read past the last
\* column gives is the driver's choice, an exception or a NULL field
PastEnd == {"throw", "null"}

\* from_columns that counts the columns from the last one
from_columns_from_end(row, S, past_end) ==
    LET n       == Len(S.names)
        m       == Len(row.vals)
        conv(k) == as_type(row.vals[m + 1 - k], TypeOf(S.names[k]))
    IN  IF m >= n /\ \A k \in 1..n : conv(k).ok
        THEN [ok |-> TRUE, value |-> [k \in 1..n |-> conv(k).value] \o <<>>]
        ELSE [ok |-> FALSE]

\* from_columns<T>(row): field i from column i; [ok, value], ok = FALSE when
\* row[index] or as<>() throws
from_columns(row, S, past_end) ==
    LET n       == Len(S.names)
        cell(k) == IF k <= Len(row.vals) THEN row.vals[k] ELSE Null
        conv(k) == as_type(cell(k), TypeOf(S.names[k]))
    IN  IF (Len(row.vals) >= n \/ past_end = "null") /\ \A k \in 1..n : conv(k).ok
        THEN [ok |-> TRUE, value |-> [k \in 1..n |-> conv(k).value] \o <<>>]
        ELSE [ok |-> FALSE]

\* extract_all_rows that fills the vector from the last row to the first
extract_all_rows_backwards(rows, S) ==
    IF \A k \in 1..Len(rows) : from_row(rows[k], S).ok
    THEN [ok |-> TRUE,
          value |-> [k \in 1..Len(rows) |-> from_row(rows[Len(rows) + 1 - k], S).value] \o <<>>]
    ELSE [ok |-> FALSE]

\* extract_all_rows<T>(result): from_row of every row, in order
extract_all_rows(rows, S) ==
    IF \A k \in 1..Len(rows) : from_row(rows[k], S).ok
    THEN [ok |-> TRUE, value |-> [k \in 1..Len(rows) |-> from_row(rows[k], S).value] \o <<>>]
    ELSE [ok |-> FALSE]

Threw(log, tbl) == [drv |-> log, result |-> [kind |-> "exception"], table |-> tbl]

\* one_row_as that maps the last row of the result
one_row_of_last(res, fail) ==
    IF fail = "exec" \/ ~res.ok THEN Threw(<<"begin", "exec", "abort">>, table)
    ELSE IF res.rows = <<>>
    THEN [drv |-> <<"begin", "exec", "abort">>, result |-> [kind |-> "nullopt"],
          table |-> table]
    ELSE IF fail = "commit" THEN Threw(<<"begin", "exec", "commit">>, table)
    ELSE LET obj == from_row(res.rows[Len(res.rows)], Scheme)
         IN  [drv    |-> <<"begin", "exec", "commit">>,
              result |-> IF obj.ok THEN [kind |-> "value", value |-> obj.value]
                         ELSE [kind |-> "terminate"],
              table  |-> res.table]

\* one_row_as after txn.exec has answered res: [drv, result, table]
one_row_of(res, fail) ==
        IF fail = "exec" \/ ~res.ok THEN Threw(<<"begin", "exec", "abort">>, table)
        ELSE IF res.rows = <<>>
        THEN [drv |-> <<"begin", "exec", "abort">>, result |-> [kind |-> "nullopt"],
              table |-> table]
        ELSE IF fail = "commit" THEN Threw(<<"begin", "exec", "commit">>, table)
        ELSE LET obj == from_row(res.rows[1], Scheme)
             IN  [drv    |-> <<"begin", "exec", "commit">>,
                  result |-> IF obj.ok THEN [kind |-> "value", value |-> obj.value]
                             ELSE [kind |-> "terminate"],
                  table  |-> res.table]

\* one_row_as<T>(conn, query, args...)
one_row_as(q, ps, fail) == one_row_of(Execute(ss_data(q), ps, table, Scheme), fail)

\* as_set_of after txn.exec has answered res: [drv, result, table]
set_of(res, fail) ==
        IF fail = "exec" \/ ~res.ok THEN Threw(<<"begin", "exec", "abort">>, table)
        ELSE IF res.rows = <<>>
        THEN [drv |-> <<"begin", "exec", "abort">>, result |-> [kind |-> "nullopt"],
              table |-> table]
        ELSE IF fail = "commit" THEN Threw(<<"begin", "exec", "commit">>, table)
        ELSE LET objs == extract_all_rows(res.rows, Scheme)
             IN  [drv    |-> <<"begin", "exec", "commit">>,
                  result |-> IF objs.ok THEN [kind |-> "value", value |-> objs.value]
                             ELSE [kind |-> "terminate"],
                  table  |-> res.table]

\* as_set_of<T>(conn, query, args...)
as_set_of(q, ps, fail) == set_of(Execute(ss_data(q), ps, table, Scheme), fail)

\* exec_affected whose statement stays applied when commit() throws
affected_of_applied(res, fail) ==
    IF fail = "exec" \/ ~res.ok THEN Threw(<<"begin", "exec", "abort">>, table)
    ELSE IF fail = "commit" THEN Threw(<<"begin", "exec", "commit">>, res.table)
    ELSE [drv    |-> <<"begin", "exec", "commit">>,
          result |-> [kind |-> "affected", value |-> res.affected],
          table  |-> res.table]

\* exec_affected after txn.exec has answered res: [drv, result, table]
affected_of(res, fail) ==
        IF fail = "exec" \/ ~res.ok THEN Threw(<<"begin", "exec", "abort">>, table)
        ELSE IF fail = "commit" THEN Threw(<<"begin", "exec", "commit">>, table)
        ELSE [drv    |-> <<"begin", "exec", "commit">>,
              result |-> [kind |-> "affected", value |-> res.affected],
              table  |-> res.table]

\* exec_affected(conn, query, args...)
exec_affected(q, ps, fail) == affected_of(Execute(ss_data(q), ps, table, Scheme), fail)

\* unpack_fields over an index sequence one short of the field count
unpack_fields_one_short(obj, S) ==
    [I \in 1..(Len(S.names) - 1) |-> obj[I]] \o <<>>

\* details/unpack_fields_impl.hpp: the arguments the callback is invoked
\* with, get_field_by_idx<I>(obj) for I = 0..get_fields_count-1
unpack_fields(obj, S) ==
    [I \in 1..get_fields_count(S) |-> get_field_by_idx(I - 1, obj)] \o <<>>

\* the parameters exec_affected<Scheme>(conn, query, record) binds
record_params(rec, S) ==
    LET fields == unpack_fields(rec, S)
    IN  [k \in 1..Len(fields) |-> to_wire(fields[k], TypeOf(S.names[k]))] \o <<>>

----------------------------------------------------------------------------
(* The program: between two operations nothing of the last one is left *)

NoQuery == static_string(0)
NoResult == [kind |-> "none"]

kOrCond == <<"a", " ", "=", " ", "$", "1", " ", "O", "R", " ", "e", "m", " ", "=", " ", "$", "2">>
kQuotedCond == <<" ", "n", "m", " ", "=", " ", "'", "w", " ", "'", " ">>

\* the conditions the WHERE synthesizers are instantiated with
Conds == {kIdCond, kOrCond, kQuotedCond}

Idle ==
    /\ op = "none"
    /\ Fields = <<>>
    /\ record = <<>>
    /\ build = "ok"
    /\ query = NoQuery
    /\ params = <<>>
    /\ drv = <<>>
    /\ result = NoResult

\* a freshly created, empty table
Init ==
    /\ Scheme \in FacadeSchemes
    /\ table = <<>>
    /\ Idle

SynthInit ==
    /\ Scheme \in SynthSchemes
    /\ table = <<>>
    /\ Idle

\* the operation has returned: its query, parameters, transaction and result
\* go out of scope
Return ==
    /\ op # "none"
    /\ op' = "none"
    /\ Fields' = <<>>
    /\ record' = <<>>
    /\ build' = "ok"
    /\ query' = NoQuery
    /\ params' = <<>>
    /\ drv' = <<>>
    /\ result' = NoResult
    /\ UNCHANGED <<Scheme, table>>

----------------------------------------------------------------------------
(* sql_utils.hpp instantiated on its own *)

Synthesized(name, fs, q) ==
    /\ op = "none"
    /\ HasName(Scheme)
    /\ op' = name
    /\ Fields' = fs
    /\ build' = "ok"
    /\ query' = q
    /\ UNCHANGED <<Scheme, table, record, params, drv, result>>

CreateUpdateQuery ==
    \E fs \in SynthPacks :
        Synthesized("create_update_query", fs, create_update_query(Scheme, fs))

CreateUpdateAllQuery ==
    /\ HasIdField(Scheme)
    /\ Synthesized("create_update_all_query", <<>>, create_update_all_query(Scheme))

CreateInsertAllQuery ==
    Synthesized("create_insert_all_query", <<>>, create_insert_all_query(Scheme))

ConstructSelectAllQuery ==
    Synthesized("construct_select_all_query", <<>>, construct_select_all_query(Scheme))

ConstructQueryFromCondition ==
    \E cond \in Conds :
        Synthesized("construct_query_from_condition", cond,
                    construct_query_from_condition(Scheme, cond))

ConstructDeleteQueryFromCondition ==
    \E cond \in Conds :
        Synthesized("construct_delete_query_from_condition", cond,
                    construct_delete_query_from_condition(Scheme, cond))

ValidateFields ==
    \E fs \in SynthPacks :
        /\ op = "none"
        /\ op' = "validate_fields"
        /\ Fields' = fs
        /\ result' = [kind |-> "bool", value |-> validate_fields(fs, Scheme)]
        /\ UNCHANGED <<Scheme, table, record, build, query, params, drv>>

\* names looked up in a record type: declared ones, undeclared ones, the
\* empty name
LookupNames == {kId, kA, kEm, kNm, kZ, kI, <<>>}

GetFieldIdxByName ==
    \E field_name \in LookupNames :
        /\ op = "none"
        /\ op' = "get_field_idx_by_name"
        /\ record' = field_name
        /\ result' = [kind |-> "index", value |-> get_field_idx_by_name(field_name, Scheme)]
        /\ UNCHANGED <<Scheme, table, Fields, build, query, params, drv>>

\* arguments of itoa_d: the negatives and zero, every digit count up to the
\* nine digits a ten-byte buffer holds
ItoaInputs ==
    {-2147483647, -1, 0, 1, 9, 10, 11, 42, 99, 100, 101, 909, 1000, 12345, 100000,
     1234567, 90000009, 100000000, 123456789, 999999999}

ItoaD ==
    \E in_num \in ItoaInputs :
        /\ op = "none"
        /\ op' = "itoa_d"
        /\ record' = in_num
        /\ result' = [kind |-> "buffer", value |-> itoa_d(in_num)]
        /\ UNCHANGED <<Scheme, table, Fields, build, query, params, drv>>

----------------------------------------------------------------------------
(* details/static_string.hpp used on its own: query is the builder, drv the *)
(* pieces appended to it since its construction                             *)

Pieces == {<<>>, <<"a">>, <<"b", "c">>}

\* the builders a program starts from: static_string<N>{} and literals
Builders ==
    {static_string(N) : N \in 0..3} \cup {static_string_lit(str) : str \in Pieces}

StringInit ==
    /\ Scheme = [kName |-> <<"t">>, names |-> <<kId>>]
    /\ table = <<>>
    /\ op = "none"
    /\ Fields = <<>>
    /\ record = <<>>
    /\ build = "ok"
    /\ query \in Builders
    /\ params = <<>>
    /\ drv = IF query.len = 0 THEN <<>> ELSE <<sview(query)>>
    /\ result = NoResult

\* res += str; a copy past value[N-1] is undefined, nothing is done with the
\* builder after it
OperatorPlusAssign ==
    /\ ~query.ovf
    /\ Len(drv) < MaxAppends
    /\ \E str \in Pieces :
        /\ op' = "operator+="
        /\ record' = str
        /\ query' = ss_append(query, str)
        /\ drv' = Append(drv, str)
        /\ UNCHANGED <<Scheme, table, Fields, build, params, result>>

\* res = first + second, first the builder at hand, kept in Fields
OperatorPlus ==
    /\ ~query.ovf
    /\ \E second \in Builders :
        /\ query.N + second.N <= MaxCap
        /\ op' = "operator+"
        /\ Fields' = query
        /\ record' = second
        /\ query' = ss_concat(query, second)
        /\ drv' = <<sview(query), sview(second)>>
        /\ UNCHANGED <<Scheme, table, build, params, result>>

\* the texts a builder is compared with
EqTexts == Packs({"a", "b"}, 2) \cup {<<"b", "c">>, <<"a", "b", "c">>, <<"b", "c", "a">>}

OperatorEq ==
    /\ ~query.ovf
    /\ \E rhs \in EqTexts :
        /\ op' = "operator=="
        /\ record' = rhs
        /\ result' = [kind |-> "bool", value |-> ss_eq(query, rhs)]
        /\ UNCHANGED <<Scheme, table, Fields, build, query, params, drv>>

----------------------------------------------------------------------------
(* db_api.hpp *)

\* the operation ran query q with parameters ps on the driver
Ran(name, fs, arg, q, ps, out) ==
    /\ op' = name
    /\ Fields' = fs
    /\ record' = arg
    /\ build' = "ok"
    /\ query' = q
    /\ params' = ps
    /\ drv' = out.drv
    /\ result' = out.result
    /\ table' = out.table
    /\ UNCHANGED Scheme

find_by_id ==
    /\ op = "none"
    /\ HasIdField(Scheme)
    /\ \E id \in Ints, fail \in Fails :
        LET kSelectQuery == construct_query_from_condition(Scheme, kIdCond)
            ps == <<to_wire(id, "int")>>
        IN  Ran("find_by_id", <<>>, id, kSelectQuery, ps,
                one_row_as(kSelectQuery, ps, fail))

get_all_records ==
    /\ op = "none"
    /\ HasIdField(Scheme)
    /\ \E fail \in Fails :
        LET kSelectAllQuery == construct_select_all_query(Scheme)
        IN  Ran("get_all_records", <<>>, <<>>, kSelectAllQuery, <<>>,
                as_set_of(kSelectAllQuery, <<>>, fail))

\* db::utils::one_row_as<Scheme>(conn, query) called directly, with a query
\* that can yield several rows
OneRowAs ==
    /\ op = "none"
    /\ \E fail \in Fails :
        LET kSelectAllQuery == construct_select_all_query(Scheme)
        IN  Ran("one_row_as", <<>>, <<>>, kSelectAllQuery, <<>>,
                one_row_as(kSelectAllQuery, <<>>, fail))

\* static_assert(validate_fields<Fields...>(Scheme{})) first: a pack with an
\* unknown name does not build, nothing is generated or run
update_fields ==
    /\ op = "none"
    /\ HasIdField(Scheme)
    /\ \E fs \in FacadePacks, rec \in Records(Scheme), fail \in Fails :
        IF ~validate_fields(fs, Scheme)
        THEN /\ op' = "update_fields"
             /\ Fields' = fs
             /\ record' = rec
             /\ build' = "static_assert"
             /\ UNCHANGED <<Scheme, table, query, params, drv, result>>
        ELSE IF \E k \in 1..Len(fs) :
                    get_field_idx_by_name(fs[k], Scheme) >= get_fields_count(Scheme)
        \* boost::pfr::get<idx> with idx = field count is ill-formed
        THEN /\ op' = "update_fields"
             /\ Fields' = fs
             /\ record' = rec
             /\ build' = "pfr_get"
             /\ query' = create_update_query(Scheme, fs)
             /\ UNCHANGED <<Scheme, table, params, drv, result>>
        ELSE LET kUpdateQuery == create_update_query(Scheme, fs)
                 ps == <<to_wire(get_field_by_name(kId, Scheme, rec), TypeOf(kId))>>
                       \o [k \in 1..Len(fs) |->
                             to_wire(get_field_by_name(fs[k], Scheme, rec), TypeOf(fs[k]))]
             IN  Ran("update_fields", fs, rec, kUpdateQuery, ps,
                     exec_affected(kUpdateQuery, ps, fail))

delete_record_by_id ==
    /\ op = "none"
    /\ HasIdField(Scheme)
    /\ \E id \in Ints, fail \in Fails :
        LET kDeleteQuery == construct_delete_query_from_condition(Scheme, kIdCond)
            ps == <<to_wire(id, "int")>>
        IN  Ran("delete_record_by_id", <<>>, id, kDeleteQuery, ps,
                exec_affected(kDeleteQuery, ps, fail))

update_record ==
    /\ op = "none"
    /\ HasIdField(Scheme)
    /\ \E rec \in Records(Scheme), fail \in Fails :
        LET kUpdateAllQuery == create_update_all_query(Scheme)
            ps == record_params(rec, Scheme)
        IN  Ran("update_record", <<>>, rec, kUpdateAllQuery, ps,
                exec_affected(kUpdateAllQuery, ps, fail))

insert_record ==
    /\ op = "none"
    /\ HasIdField(Scheme)
    /\ \E rec \in Records(Scheme), fail \in Fails :
        LET kInsertAllQuery == create_insert_all_query(Scheme)
            ps == record_params(rec, Scheme)
        IN  Ran("insert_record", <<>>, rec, kInsertAllQuery, ps,
                exec_affected(kInsertAllQuery, ps, fail))

----------------------------------------------------------------------------
(* db_utils.hpp row mappers called on their own *)

Mapped(name, arg, out) ==
    /\ op = "none"
    /\ op' = name
    /\ record' = arg
    /\ result' = out
    /\ UNCHANGED <<Scheme, table, Fields, build, query, params, drv>>

\* from_row is noexcept: an exception of row[name] or as<>() ends the program
FromRow ==
    \E row \in Rows :
        Mapped("from_row", row,
               IF from_row(row, Scheme).ok
               THEN [kind |-> "value", value |-> from_row(row, Scheme).value]
               ELSE [kind |-> "terminate"])

\* from_columns lets the exception through
FromColumns ==
    \E row \in Rows, past_end \in PastEnd :
        Mapped("from_columns", row,
               IF from_columns(row, Scheme, past_end).ok
               THEN [kind |-> "value", value |-> from_columns(row, Scheme, past_end).value]
               ELSE [kind |-> "exception"])

\* a result row every field of the record type converts from
GoodRow(S) == [cols |-> S.names, vals |-> [k \in 1..Len(S.names) |-> "1"] \o <<>>]

\* extract_all_rows is noexcept and calls from_row on every row
ExtractAllRows ==
    \E row \in Rows :
        Mapped("extract_all_rows", <<GoodRow(Scheme), row>>,
               IF extract_all_rows(<<GoodRow(Scheme), row>>, Scheme).ok
               THEN [kind  |-> "value",
                     value |-> extract_all_rows(<<GoodRow(Scheme), row>>, Scheme).value]
               ELSE [kind |-> "terminate"])

MapperInit ==
    /\ Scheme \in MapperSchemes
    /\ table = <<>>
    /\ Idle

----------------------------------------------------------------------------
(* Specifications *)

MapperNext ==
    \/ FromRow
    \/ FromColumns
    \/ ExtractAllRows
    \/ Return

MapperSpec == MapperInit /\ [][MapperNext]_vars

SynthNext ==
    \/ CreateUpdateQuery
    \/ CreateUpdateAllQuery
    \/ CreateInsertAllQuery
    \/ ConstructSelectAllQuery
    \/ ConstructQueryFromCondition
    \/ ConstructDeleteQueryFromCondition
    \/ ValidateFields
    \/ GetFieldIdxByName
    \/ ItoaD
    \/ Return

SynthSpec == SynthInit /\ [][SynthNext]_vars

\* the synthesizers instantiated with record types of any kName
NameInit ==
    /\ Scheme \in NameSchemes
    /\ table = <<>>
    /\ Idle

NameSpec == NameInit /\ [][SynthNext]_vars

StringNext ==
    \/ OperatorPlusAssign
    \/ OperatorPlus
    \/ OperatorEq

StringSpec == StringInit /\ [][StringNext]_vars

Next ==
    \/ find_by_id
    \/ get_all_records
    \/ update_fields
    \/ delete_record_by_id
    \/ update_record
    \/ insert_record
    \/ OneRowAs
    \/ CreateUpdateQuery
    \/ Return

Spec == Init /\ [][Next]_vars

----------------------------------------------------------------------------
(* Statement texts and values written out independently of the code *)

\* decimal numeral of n, 0 <= n <= 99
Dec(n) ==
    IF n < 10 THEN <<Digits[n + 1]>>
    ELSE <<Digits[(n \div 10) + 1], Digits[(n % 10) + 1]>>

\* the items joined by ", "
RECURSIVE Join(_)
Join(items) ==
    IF items = <<>> THEN <<>>
    ELSE IF Len(items) = 1 THEN items[1]
    ELSE items[1] \o <<",", " ">> \o Join(Tail(items))

\* names[k] = $(k + 1): the assignments of a SET clause
Assignments(names) ==
    [k \in 1..Len(names) |-> names[k] \o <<" ", "=", " ", "$">> \o Dec(k + 1)]

UpdateText(t, names) ==
    <<"U", "P", "D", "A", "T", "E", " ">> \o t \o <<" ", "S", "E", "T", " ">>
        \o Join(Assignments(names))
        \o <<" ", "W", "H", "E", "R", "E", " ", "i", "d", " ", "=", " ", "$", "1", ";">>

Placeholders(n) == [k \in 1..n |-> <<"$">> \o Dec(k)]

InsertText(t, names) ==
    <<"I", "N", "S", "E", "R", "T", " ", "I", "N", "T", "O", " ">> \o t \o <<" ", "(">>
        \o Join(names) \o <<")", " ", "V", "A", "L", "U", "E", "S", " ", "(">>
        \o Join(Placeholders(Len(names))) \o <<")", ";">>

\* the declared names other than "id", in declaration order
NonId(names) == SelectSeq(names, LAMBDA f : f # kId)

NameSet(names) == {names[k] : k \in 1..Len(names)}

\* the value of the record's field named f, as the driver must receive it
WireOf(f, rec) ==
    LET v == rec[CHOOSE j \in 1..Len(Scheme.names) : Scheme.names[j] = f]
    IN  IF f \in {kId, kA} THEN <<"0", "1", "2", "3", "4", "5", "6", "7", "8", "9">>[v + 1]
        ELSE v

Count(log, call) == Cardinality({k \in 1..Len(log) : log[k] = call})

----------------------------------------------------------------------------
(* Claims *)

\* C1: update_record binds record.id to $1 and, for every SET entry
\* "f = $j" of its statement, the value of record field f to $j, wherever
\* "id" is declared.
C1_UpdateRecordBinding ==
    op = "update_record" =>
        LET st == Parse(ss_data(query))
        IN  /\ params[1] = WireOf(kId, record)
            /\ st.kind = "update" =>
                   \A k \in 1..Len(st.cols) :
                       /\ st.idxs[k] <= Len(params)
                       /\ params[st.idxs[k]] = WireOf(st.cols[k], record)

\* C2: for a non-empty pack F, create_update_query gives "UPDATE t SET ",
\* then F[k] = $(k+2) (k from 0) in F's order joined by ", ", then
\* " WHERE id = $1;".
C2_UpdateFieldsText ==
    (op = "create_update_query" /\ Fields # <<>>) =>
        /\ sview(query) = UpdateText(Scheme.kName, Fields)
        /\ LET st == Parse(ss_data(query))
           IN  Len(Fields) <= 2 =>
                   /\ st.kind = "update"
                   /\ st.cols = Fields
                   /\ st.idxs = [k \in 1..Len(Fields) |-> k + 1]

C2_Witness ==
    /\ op = "create_update_query"
    /\ Fields = LongPack
    /\ query.len = 104 + Len(Scheme.kName)
    /\ Scheme.names = <<kA, kId, kEm>>

\* C3: with "id" declared anywhere and at least one other field,
\* create_update_all_query gives the UPDATE text over the declared fields
\* other than "id", in declaration order, numbered from $2.
C3_UpdateAllText ==
    (op = "create_update_all_query" /\ Len(Scheme.names) >= 2) =>
        sview(query) = UpdateText(Scheme.kName, NonId(Scheme.names))

C3_Witness ==
    /\ op = "create_update_all_query"
    /\ Scheme.names = <<kA, kId, kEm>>
    /\ Len(Lex(sview(query))) = 15

\* C4: create_insert_all_query gives "INSERT INTO t (" + the n declared
\* names joined by ", " + ") VALUES (" + $1..$n joined by ", " + ");".
C4_InsertAllText ==
    op = "create_insert_all_query" =>
        /\ sview(query) = InsertText(Scheme.kName, Scheme.names)
        /\ LET st == Parse(ss_data(query))
           IN  /\ st.kind = "insert"
               /\ st.cols = Scheme.names
               /\ st.idxs = [k \in 1..Len(Scheme.names) |-> k]

C4_Witness ==
    /\ op = "create_insert_all_query"
    /\ Scheme.names = <<kEm, kId, kA>>
    /\ Parse(ss_data(query)).idxs = <<1, 2, 3>>

\* C5: update_fields with a valid pack F binds record.id first and then,
\* for every k, the value of the record field named F[k] to the placeholder
\* of the SET entry that names F[k].
C5_UpdateFieldsBinding ==
    (op = "update_fields" /\ build = "ok") =>
        /\ Len(params) = Len(Fields) + 1
        /\ params[1] = WireOf(kId, record)
        /\ \A k \in 1..Len(Fields) : params[k + 1] = WireOf(Fields[k], record)
        /\ sview(query) = UpdateText(Scheme.kName, Fields)

C5_Witness ==
    /\ op = "update_fields"
    /\ build = "ok"
    /\ Scheme.names = <<kA, kId, kEm>>
    /\ Fields = <<kEm, kA>>
    /\ params = <<"2", "w", "1">>
    /\ result = [kind |-> "affected", value |-> 1]

\* C6: insert_record hands the driver, in one call, the INSERT_ALL text and
\* exactly field_count parameters, the i-th the value of the i-th declared
\* field, which is the column listed i-th.
C6_InsertRecordBinding ==
    op = "insert_record" =>
        /\ Count(drv, "exec") = 1
        /\ ss_data(query) = InsertText(Scheme.kName, Scheme.names)
        /\ Len(params) = Len(Scheme.names)
        /\ \A i \in 1..Len(Scheme.names) : params[i] = WireOf(Scheme.names[i], record)
        /\ LET st == Parse(ss_data(query))
           IN  \A i \in 1..Len(Scheme.names) :
                   st.idxs[i] = i /\ params[i] = WireOf(st.cols[i], record)

C6_Witness ==
    /\ op = "insert_record"
    /\ Scheme.names = <<kA, kId, kEm>>
    /\ params = <<"1", "2", Null>>
    /\ result = [kind |-> "affected", value |-> 1]
    /\ Len(table) = 2

\* C7 as stated: no UPDATE_FIELDS text is generated for a pack with a name
\* that is not a field, by create_update_query or by update_fields.
C7_NoTextForUnknownName ==
    (op \in {"create_update_query", "update_fields"}
        /\ ~(NameSet(Fields) \subseteq NameSet(Scheme.names))) =>
        query = NoQuery

\* C7 amended: update_fields rejects a pack with an unknown name at build
\* time, before any text is generated or run; create_update_query checks
\* nothing and generates the text for whatever names it is given.
C7_FacadeOnlyValidates ==
    /\ (op = "update_fields" /\ ~(NameSet(Fields) \subseteq NameSet(Scheme.names))) =>
           (build = "static_assert" /\ query = NoQuery /\ params = <<>> /\ drv = <<>>)
    /\ (op = "update_fields" /\ NameSet(Fields) \subseteq NameSet(Scheme.names)) =>
           build = "ok"
    /\ op = "create_update_query" =>
           (build = "ok" /\ sview(query) = UpdateText(Scheme.kName, Fields))

C7_Witness ==
    /\ op = "update_fields"
    /\ Fields = <<kA, kZ>>
    /\ Scheme.names = <<kA, kId, kEm>>
    /\ build = "static_assert"
    /\ table # <<>>

\* C8: validate_fields(F, schema) is true exactly when every name of F is
\* the name of a declared field: true for the empty pack, false as soon as
\* one name is absent, wherever it stands in F.
C8_ValidateFieldsIff ==
    op = "validate_fields" =>
        (result.value <=> NameSet(Fields) \subseteq NameSet(Scheme.names))

C8_Witness ==
    /\ op = "validate_fields"
    /\ Fields = <<kZ, kA>>
    /\ Scheme.names = <<kEm, kA>>
    /\ result.value = FALSE

\* C9: whenever the statement of a driver-facing operation ran successfully,
\* zero result rows included, the operation opened one transaction and
\* committed it once.
C9_CommitOnSuccess ==
    (op \in {"find_by_id", "get_all_records", "update_fields", "delete_record_by_id",
             "update_record", "insert_record"}
        /\ build = "ok"
        /\ result.kind \in {"nullopt", "value", "affected"}) =>
        (Count(drv, "begin") = 1 /\ Count(drv, "commit") = 1)

\* C10: get_all_records on an empty table returns nullopt; on N > 0 rows it
\* returns N records, the k-th mapped by column name from the k-th row.
C10_GetAllRecords ==
    (op = "get_all_records" /\ result.kind # "exception") =>
        IF table = <<>> THEN result.kind = "nullopt"
        ELSE /\ result.kind = "value"
             /\ Len(result.value) = Len(table)
             /\ \A k \in 1..Len(table) :
                    /\ Len(result.value[k]) = Len(Scheme.names)
                    /\ \A j \in 1..Len(Scheme.names) :
                           WireOf(Scheme.names[j], result.value[k])
                               = table[k][ColIdx(TableCols(Scheme), Scheme.names[j])]

C10_Witness ==
    /\ op = "get_all_records"
    /\ Scheme.names = <<kA, kId, kEm>>
    /\ table = << <<"2", "1", "w">>, <<"1", "2", Null>> >>
    /\ result = [kind |-> "value", value |-> << <<1, 2, "w">>, <<2, 1, Null>> >>]

\* the statement find_by_id must send for table t
SelectByIdText(t) ==
    <<"S", "E", "L", "E", "C", "T", " ", "*", " ", "F", "R", "O", "M", " ">> \o t
        \o <<" ", "W", "H", "E", "R", "E", " ", "i", "d", " ", "=", " ", "$", "1", ";">>

\* the cell of stored row r in the column named f
Cell(r, f) == r[CHOOSE k \in 1..Len(TableCols(Scheme)) : TableCols(Scheme)[k] = f]

\* rec is the record whose every field holds what row r stores under the
\* field's name
MapsRow(rec, r) ==
    /\ Len(rec) = Len(Scheme.names)
    /\ \A j \in 1..Len(Scheme.names) : WireOf(Scheme.names[j], rec) = Cell(r, Scheme.names[j])

\* C11: find_by_id sends "SELECT * FROM t WHERE id = $1;" with the id as
\* its only parameter; one_row_as returns nullopt exactly when the result
\* has no row and otherwise the record mapped by name from the first row,
\* whatever rows follow.
C11_FindById ==
    (op \in {"find_by_id", "one_row_as"} /\ result.kind # "exception") =>
        LET rows == IF op = "one_row_as" THEN table
                    ELSE SelectSeq(table, LAMBDA r : <<Cell(r, kId)>> = Dec(record))
        IN  /\ op = "find_by_id" =>
                   (ss_data(query) = SelectByIdText(Scheme.kName) /\ params = Dec(record))
            /\ result.kind = "nullopt" <=> rows = <<>>
            /\ rows # <<>> => (result.kind = "value" /\ MapsRow(result.value, rows[1]))

C11_Witness ==
    /\ op = "one_row_as"
    /\ Len(table) = 2
    /\ Scheme.names = <<kA, kId, kEm>>
    /\ result.kind = "value"
    /\ ~MapsRow(result.value, table[2])

\* a column value the declared type of a field accepts
Convertible(v, type) ==
    IF type = "int" THEN v \in {"0", "1", "2", "3", "4", "5", "6", "7", "8", "9"}
    ELSE IF type = "text" THEN v # Null
    ELSE TRUE

\* the field value a convertible column value stands for
ValueOf(v, type) ==
    IF type = "int"
    THEN CHOOSE d \in 0..9 : <<"0", "1", "2", "3", "4", "5", "6", "7", "8", "9">>[d + 1] = v
    ELSE v

HasCol(row, f) == \E k \in 1..Len(row.cols) : row.cols[k] = f

CellOf(row, f) == row.vals[CHOOSE k \in 1..Len(row.cols) : row.cols[k] = f]

\* some declared field has no column of its name, or a value that does not
\* convert
Offending(row, S) ==
    \E j \in 1..Len(S.names) :
        \/ ~HasCol(row, S.names[j])
        \/ ~Convertible(CellOf(row, S.names[j]), TypeOf(S.names[j]))

\* C12: when a declared field has no column of its name in the row, or the
\* column's value does not convert, from_row (and extract_all_rows, which
\* calls it per row) hands its caller a conversion error.
C12_FromRowRaises ==
    /\ (op = "from_row" /\ Offending(record, Scheme)) => result.kind = "exception"
    /\ (op = "extract_all_rows" /\ \E k \in 1..Len(record) : Offending(record[k], Scheme)) =>
           result.kind = "exception"

\* C13: from_columns gives field i the converted value of column i,
\* whatever the columns are called, and fails with an error when the row
\* has fewer columns than the record has fields or a value at some position
\* does not convert to the type of the field at that position.
C13_FromColumnsFails ==
    op = "from_columns" =>
        LET n == Len(Scheme.names)
        IN  IF \/ Len(record.vals) < n
               \/ \E k \in 1..n : ~Convertible(record.vals[k], TypeOf(Scheme.names[k]))
            THEN result.kind = "exception"
            ELSE /\ result.kind = "value"
                 /\ \A k \in 1..n :
                        result.value[k] = ValueOf(record.vals[k], TypeOf(Scheme.names[k]))

\* C14: on a row whose column names are the field names in the same order
\* and whose values all convert, from_columns returns the record from_row
\* returns.
C14_NamedEqualsPositional ==
    (/\ op = "from_columns"
     /\ record.cols = Scheme.names
     /\ \A k \in 1..Len(Scheme.names) :
            Convertible(record.vals[k], TypeOf(Scheme.names[k]))) =>
        /\ result.kind = "value"
        /\ from_row(record, Scheme).ok
        /\ result.value = from_row(record, Scheme).value

C14_Witness ==
    /\ op = "from_columns"
    /\ Scheme.names = <<kEm, kId, kNm>>
    /\ record = [cols |-> <<kEm, kId, kNm>>, vals |-> <<Null, "1", "w">>]
    /\ result = [kind |-> "value", value |-> <<Null, 1, "w">>]

\* the row with its columns in the order p
Permuted(row, p) ==
    [cols |-> [k \in 1..Len(row.cols) |-> row.cols[p[k]]] \o <<>>,
     vals |-> [k \in 1..Len(row.cols) |-> row.vals[p[k]]] \o <<>>]

C16_NullIntoOptional ==
    (op \in {"find_by_id", "one_row_as", "get_all_records"}
        /\ result.kind \notin {"exception", "nullopt"}) =>
        LET rows == IF op = "find_by_id"
                    THEN SelectSeq(table, LAMBDA r : <<Cell(r, kId)>> = Dec(record))
                    ELSE table
            recs == IF op = "get_all_records" THEN result.value ELSE <<result.value>>
        IN  /\ result.kind = "value"
            /\ \A k \in 1..Len(recs), j \in 1..Len(Scheme.names) :
                   LET f == Scheme.names[j]
                   IN  IF Cell(rows[k], f) = Null
                       THEN TypeOf(f) = "opt" /\ recs[k][j] = Null
                       ELSE recs[k][j] = ValueOf(Cell(rows[k], f), TypeOf(f))

C16_Witness ==
    /\ op = "get_all_records"
    /\ Scheme.names = <<kA, kId, kEm>>
    /\ table = << <<"1", "2", Null>>, <<"2", "1", "w">> >>
    /\ result = [kind |-> "value", value |-> << <<2, 1, Null>>, <<1, 2, "w">> >>]

RowSet(tbl) == {tbl[k] : k \in 1..Len(tbl)}

\* the stored rows whose id column holds idw
WithId(tbl, idw) == {k \in 1..Len(tbl) : Cell(tbl[k], kId) = idw}

C18_UpdateFieldsEffect ==
    [][(/\ op = "none"
        /\ op' = "update_fields"
        /\ build' = "ok"
        /\ result'.kind = "affected"
        /\ WithId(table, WireOf(kId, record')) # {}) =>
           LET idw == WireOf(kId, record')
               old == table[CHOOSE k \in WithId(table, idw) : TRUE]
           IN  /\ result'.value = 1
               /\ Len(table') = Len(table)
               /\ \A k \in 1..Len(table) :
                      Cell(table[k], kId) # idw => table[k] \in RowSet(table')
               /\ \E k \in WithId(table', idw) :
                      \A j \in 1..Len(Scheme.names) :
                          LET f == Scheme.names[j]
                          IN  Cell(table'[k], f) =
                                  IF f \in NameSet(Fields') THEN WireOf(f, record')
                                  ELSE Cell(old, f)
      ]_vars

C18_Witness ==
    /\ op = "update_fields"
    /\ Scheme.names = <<kId, kA, kEm>>
    /\ Fields = <<kEm>>
    /\ record = <<1, 2, "w">>
    /\ table = << <<"2", "2", Null>>, <<"1", "1", "w">> >>
    /\ result = [kind |-> "affected", value |-> 1]

\* C19: delete_record_by_id(id) removes exactly the rows with that id and
\* returns their number, 1 or 0, a table with no such row staying as it is
\* and every row of another id staying; on a table emptied this way
\* get_all_records returns nullopt.
C19_DeleteEffect ==
    /\ [][(op = "none" /\ op' = "delete_record_by_id" /\ result'.kind = "affected") =>
             LET idw  == Dec(record')[1]
                 hits == WithId(table, idw)
             IN  /\ table' = SelectSeq(table, LAMBDA r : Cell(r, kId) # idw)
                 /\ result'.value = Cardinality(hits)
                 /\ result'.value \in {0, 1}
                 /\ hits = {} => table' = table
         ]_vars
    /\ []((op = "get_all_records" /\ table = <<>> /\ result.kind # "exception") =>
              result.kind = "nullopt")

C19_Witness ==
    /\ op = "delete_record_by_id"
    /\ record = 1
    /\ Scheme.names = <<kA, kId, kEm>>
    /\ table = << <<"2", "1", Null>> >>
    /\ result = [kind |-> "affected", value |-> 1]

\* what get_all_records returns on table tbl when the driver does not fail
GetAll(tbl) ==
    set_of(Execute(ss_data(construct_select_all_query(Scheme)), <<>>, tbl, Scheme),
           "none").result

\* C20: insert_record(r) that succeeds on a table of N rows returns 1; the
\* table had no row of id r.id, and get_all_records then returns N + 1
\* records, one of them r field by field and the others the N records it
\* returned before.
C20_InsertRoundTrip ==
    [][(op = "none" /\ op' = "insert_record" /\ result'.kind = "affected") =>
           LET before == GetAll(table)
               after  == GetAll(table')
           IN  /\ result'.value = 1
               /\ WithId(table, WireOf(kId, record')) = {}
               /\ after.kind = "value"
               /\ Len(after.value) = Len(table) + 1
               /\ \E k \in 1..Len(after.value) : after.value[k] = record'
               /\ before.kind = "value" =>
                      \A k \in 1..Len(before.value) :
                          \E j \in 1..Len(after.value) : after.value[j] = before.value[k]
               /\ before.kind = "nullopt" <=> table = <<>>
      ]_vars

C20_Witness ==
    /\ op = "insert_record"
    /\ Scheme.names = <<kA, kId, kEm>>
    /\ record = <<2, 1, Null>>
    /\ table = << <<"2", "1", "w">>, <<"1", "2", Null>> >>
    /\ result = [kind |-> "affected", value |-> 1]
    /\ GetAll(table).value = << <<1, 2, "w">>, <<2, 1, Null>> >>

\* C21: for every table name t and condition text c the three concatenating
\* synthesizers give exactly "SELECT * FROM t;", "SELECT * FROM t WHERE c;"
\* and "DELETE FROM t WHERE c;", t and c verbatim, one ';' at the end.
C21_ConcatenatedTexts ==
    LET t    == Scheme.kName
        text == sview(query)
    IN  /\ op = "construct_select_all_query" =>
               text = <<"S", "E", "L", "E", "C", "T", " ", "*", " ", "F", "R", "O", "M", " ">>
                          \o t \o <<";">>
        /\ op = "construct_query_from_condition" =>
               text = <<"S", "E", "L", "E", "C", "T", " ", "*", " ", "F", "R", "O", "M", " ">>
                          \o t \o <<" ", "W", "H", "E", "R", "E", " ">> \o Fields \o <<";">>
        /\ op = "construct_delete_query_from_condition" =>
               text = <<"D", "E", "L", "E", "T", "E", " ", "F", "R", "O", "M", " ">>
                          \o t \o <<" ", "W", "H", "E", "R", "E", " ">> \o Fields \o <<";">>
        /\ op \in {"construct_select_all_query", "construct_query_from_condition",
                   "construct_delete_query_from_condition"} =>
               /\ text[Len(text)] = ";"
               /\ text[Len(text) - 1] # ";"

C21_Witness ==
    /\ op = "construct_delete_query_from_condition"
    /\ Scheme.kName = <<"s", ".", "u">>
    /\ Fields = kQuotedCond
    /\ query.len = 34

DriverOps ==
    {"find_by_id", "get_all_records", "one_row_as", "update_fields",
     "delete_record_by_id", "update_record", "insert_record"}

\* C22: insert_record of an id the table already holds, which the server
\* refuses, fails with the driver's exception and never calls commit; every
\* operation that fails has opened one transaction, sent its statement once,
\* called commit at most once and only as its last call, and leaves the
\* table as it was.
C22_DriverFailure ==
    [][(op = "none" /\ op' \in DriverOps /\ build' = "ok" /\ drv' # <<>>) =>
           /\ (op' = "insert_record" /\ WithId(table, WireOf(kId, record')) # {}) =>
                  /\ result'.kind = "exception"
                  /\ Count(drv', "commit") = 0
           /\ result'.kind = "exception" =>
                  /\ Count(drv', "begin") = 1
                  /\ Count(drv', "exec") = 1
                  /\ Count(drv', "commit") <= 1
                  /\ \A k \in 1..(Len(drv') - 1) : drv'[k] # "commit"
                  /\ table' = table
      ]_vars

C22_Witness ==
    /\ op = "insert_record"
    /\ Scheme.names = <<kId, kA>>
    /\ record = <<1, 2>>
    /\ table = << <<"1", "1">> >>
    /\ drv = <<"begin", "exec", "abort">>
    /\ result.kind = "exception"

SynthOps ==
    {"create_update_query", "create_update_all_query", "create_insert_all_query",
     "construct_select_all_query", "construct_query_from_condition",
     "construct_delete_query_from_condition"}

\* C23: a record type whose kName is the empty string is not accepted by
\* any synthesizer: no statement text is generated for it.
C23_EmptyNameRejected ==
    Scheme.kName = <<>> => (op \notin SynthOps /\ query = NoQuery)

\* C24: a static_string whose appends stayed within capacity has size() the
\* sum of the appended lengths and as text the appended pieces in order, an
\* append leaving the earlier characters and the capacity as they were;
\* a + b has capacity NF + NS, a's text followed by b's and size
\* size(a) + size(b), a and b being left as they were; == with a text holds
\* iff the lengths are equal and every character matches.
C24_StaticStringAssembly ==
    /\ [](~query.ovf =>
             /\ query.len = Len(Flatten(drv))
             /\ sview(query) = Flatten(drv)
             /\ query.len <= query.N
             /\ Len(query.value) = query.N)
    /\ []((op = "operator==" /\ ~query.ovf) =>
             (result.value <=>
                 /\ Len(record) = query.len
                 /\ \A k \in 1..query.len : record[k] = query.value[k]))
    /\ [][(op' = "operator+=" /\ ~query'.ovf) =>
             /\ query'.N = query.N
             /\ query'.len = query.len + Len(record')
             /\ SubSeq(query'.value, 1, query.len) = sview(query)
             /\ SubSeq(query'.value, query.len + 1, query'.len) = record'
         ]_<<query, drv>>
    /\ [][op' = "operator+" =>
             /\ Fields' = query
             /\ query'.N = query.N + record'.N
             /\ query'.len = query.len + record'.len
             /\ sview(query') = sview(query) \o sview(record')
             /\ ~query'.ovf
         ]_<<query, drv, Fields>>

C24_Witness ==
    /\ op = "operator+="
    /\ drv = <<<<"b", "c">>, <<"a">>, <<>>, <<"a">>>>
    /\ query.N = 5
    /\ query.len = 4
    /\ Fields.N = 3

\* C25: get_field_idx_by_name returns the ordinal, from 0, of the declared
\* field of exactly that name and the field count when there is none, so
\* the answer for an undeclared name is no declared field's ordinal.
C25_FieldIdxByName ==
    op = "get_field_idx_by_name" =>
        LET names == Scheme.names
            n     == Len(names)
            found == {k \in 1..n : names[k] = record}
        IN  /\ result.value \in 0..n
            /\ found # {} => (result.value + 1) \in found
            /\ found = {} => result.value = n
            /\ result.value < n => names[result.value + 1] = record

C25_Witness ==
    /\ op = "get_field_idx_by_name"
    /\ Scheme.names = <<kEm>>
    /\ record = <<>>
    /\ result.value = 1

TwoPassOps == {"create_update_query", "create_update_all_query", "create_insert_all_query"}

\* the pieces the measuring pass of the synthesizer that ran appended
Measured ==
    IF op = "create_update_query" THEN update_query_str(Scheme, Fields)
    ELSE IF op = "create_update_all_query" THEN update_query_all_str(Scheme)
    ELSE insert_query_all_str(Scheme)

\* C26: the buffer of create_update_query, create_update_all_query and
\* create_insert_all_query has the measured length plus one as capacity, the
\* fill pass appends the measured text and no append copies past the buffer.
C26_TwoPass ==
    op \in TwoPassOps =>
        /\ ~query.ovf
        /\ query.N = Len(Flatten(Measured)) + 1
        /\ query.len = Len(Flatten(Measured))
        /\ sview(query) = Flatten(Measured)
        /\ Len(query.value) = query.N

C26_Witness ==
    /\ op = "create_insert_all_query"
    /\ Scheme.kName = <<"s", ".", "u">>
    /\ Scheme.names = <<kNm, kId, kEm>>
    /\ query.N = 50
    /\ ~query.ovf

\* "UPDATE t SET  WHERE id = $1;", the SET clause empty
EmptySetText(t) ==
    <<"U", "P", "D", "A", "T", "E", " ">> \o t
        \o <<" ", "S", "E", "T", " ", " ", "W", "H", "E", "R", "E", " ",
             "i", "d", " ", "=", " ", "$", "1", ";">>

\* C27: create_update_query with an empty pack, which validate_fields
\* accepts, and create_update_all_query on a record type whose only field is
\* "id" both build and give "UPDATE t SET  WHERE id = $1;".
C27_EmptySetClause ==
    /\ (op = "create_update_query" /\ Fields = <<>>) =>
           /\ build = "ok"
           /\ validate_fields(Fields, Scheme)
           /\ sview(query) = EmptySetText(Scheme.kName)
    /\ (op = "create_update_all_query" /\ Scheme.names = <<kId>>) =>
           /\ build = "ok"
           /\ sview(query) = EmptySetText(Scheme.kName)
    /\ (op = "validate_fields" /\ Fields = <<>>) => result.value

C27_Witness ==
    /\ op = "create_update_all_query"
    /\ Scheme.names = <<kId>>
    /\ Scheme.kName = <<"t">>
    /\ query.len = 28
    /\ build = "ok"

\* the indices of the placeholders $N of a statement text, in order
PlaceholderIdxs(text) ==
    LET toks == SelectSeq(Lex(text), IsPlaceholder)
    IN  [k \in 1..Len(toks) |-> PlaceholderIdx(toks[k])]

\* C28: the statement of find_by_id, delete_record_by_id, insert_record,
\* update_fields (repeated names and "id" included) and update_record
\* holds each of $1..$k once and no other placeholder, k the number of
\* parameters the operation binds.
C28_PlaceholdersMatchParams ==
    (op \in {"find_by_id", "delete_record_by_id", "insert_record", "update_fields",
             "update_record"}
        /\ build = "ok") =>
        LET idxs == PlaceholderIdxs(sview(query))
            k    == Len(params)
        IN  /\ Len(idxs) = k
            /\ {idxs[j] : j \in 1..Len(idxs)} = 1..k
            /\ k >= 1

C28_Witness ==
    /\ op = "update_fields"
    /\ build = "ok"
    /\ Scheme.names = <<kA, kId, kEm>>
    /\ Fields = <<kA, kA>>
    /\ Len(params) = 3
    /\ PlaceholderIdxs(sview(query)) = <<2, 3, 1>>

\* C29: the text of every synthesizer is shorter than its buffer, the byte
\* after it is zero, and data() read as a NUL-terminated string is exactly
\* the text.
C29_NulTerminated ==
    op \in SynthOps =>
        /\ ~query.ovf
        /\ query.len < query.N
        /\ query.value[query.len + 1] = NUL
        /\ \A k \in 1..query.len : query.value[k] # NUL
        /\ ss_data(query) = sview(query)

C29_Witness ==
    /\ op = "construct_select_all_query"
    /\ Scheme.kName = <<"s", ".", "u">>
    /\ query.len = 18
    /\ query.N = 20
    /\ ss_data(query) = sview(query)

\* the number a string of decimal digits denotes
RECURSIVE NumOf(_)
NumOf(text) ==
    IF text = <<>> THEN 0
    ELSE 10 * NumOf(SubSeq(text, 1, Len(text) - 1)) + DigitVal(text[Len(text)])

\* C30: itoa_d writes "0" for every n <= 0 and, for 1 <= n <= 999999999,
\* the decimal digits of n, most significant first, without sign or leading
\* zero, then a terminator, all within the ten bytes of the buffer.
C30_ItoaD ==
    op = "itoa_d" =>
        LET text == CStr(result.value)
        IN  /\ Len(result.value) = 10
            /\ Len(text) + 1 <= 10
            /\ result.value[Len(text) + 1] = NUL
            /\ record <= 0 => text = <<"0">>
            /\ record >= 1 =>
                   /\ \A k \in 1..Len(text) : IsDigit(text[k])
                   /\ text[1] # "0"
                   /\ NumOf(text) = record

C30_Witness ==
    /\ op = "itoa_d"
    /\ record = 999999999
    /\ result.value = <<"9", "9", "9", "9", "9", "9", "9", "9", "9", NUL>>

====
